---- MODULE Spec2Model ----
(***************************************************************************)
(* Model of src/api.js: the in-memory user/post store.                     *)
(*                                                                         *)
(* A JavaScript string is a sequence of one-character strings; the value   *)
(* undefined passed where a string is expected is the one-element sequence *)
(* UNDEFINED, which no string equals.  An object whose properties are      *)
(* optional (updates, options) is a record whose DOMAIN holds the          *)
(* properties that are present.  A returned value is a record with a       *)
(* "kind" field: null, a thrown Error with its message, or a value.        *)
(***************************************************************************)
EXTENDS Integers, Sequences, FiniteSets, TLC

VARIABLES users, posts, call, ret

vars == <<users, posts, call, ret>>

(***************************************************************************)
(* Bounds of the model.                                                    *)
(***************************************************************************)
MaxUsers == 2
MaxPosts == 2
MaxLikes == 2

(***************************************************************************)
(* JavaScript values.                                                      *)
(***************************************************************************)
UNDEFINED == <<"undefined">>

NULL == [kind |-> "null"]

Value(v) == [kind |-> "value", value |-> v]

Error(msg) == [kind |-> "throw", message |-> msg]

\* !s is false exactly for a non-empty string
Truthy(s) == s # UNDEFINED /\ s # <<>>

UpperCase == <<"A","B","C","D","E","F","G","H","I","J","K","L","M",
               "N","O","P","Q","R","S","T","U","V","W","X","Y","Z">>

LowerCase == <<"a","b","c","d","e","f","g","h","i","j","k","l","m",
               "n","o","p","q","r","s","t","u","v","w","x","y","z">>

toLowerCase(s) ==
    [i \in 1..Len(s) |->
        IF \E k \in 1..26 : UpperCase[k] = s[i]
        THEN LowerCase[CHOOSE k \in 1..26 : UpperCase[k] = s[i]]
        ELSE s[i]]

\* String.prototype.includes
includes(s, sub) ==
    \E i \in 0..(Len(s) - Len(sub)) : SubSeq(s, i + 1, i + Len(sub)) = sub

\* Array.prototype.includes
arrayIncludes(arr, x) == \E i \in 1..Len(arr) : arr[i] = x

Digits == <<"0","1","2","3","4","5","6","7","8","9">>

RECURSIVE NatToString(_)
NatToString(n) ==
    IF n < 10 THEN <<Digits[n + 1]>>
    ELSE NatToString(n \div 10) \o <<Digits[(n % 10) + 1]>>

\* Array.prototype.filter
filter(arr, Keep(_)) == SelectSeq(arr, Keep)

\* Array.prototype.findIndex, 1-based; 0 stands for JavaScript's -1
findIndex(arr, Test(_)) ==
    IF \E i \in 1..Len(arr) : Test(arr[i])
    THEN CHOOSE i \in 1..Len(arr) :
            Test(arr[i]) /\ \A j \in 1..(i - 1) : ~Test(arr[j])
    ELSE 0

\* Array.prototype.slice(0, end)
slice0(arr, end) ==
    LET n == Len(arr)
        e == IF end < 0 THEN (IF n + end < 0 THEN 0 ELSE n + end)
             ELSE (IF end > n THEN n ELSE end)
    IN SubSeq(arr, 1, e)

\* mutant: splice(index) without a count removes everything from index on
splice1_toEnd(arr, index) == SubSeq(arr, 1, index - 1)

\* Array.prototype.splice(index, 1), index 1-based
splice1(arr, index) == SubSeq(arr, 1, index - 1) \o SubSeq(arr, index + 1, Len(arr))

\* new Date().toISOString() when the wall clock reads t
toISOString(t) == <<"T">> \o NatToString(t)

hashPrefix == <<"h","a","s","h","e","d","_">>

hashPassword(password) == hashPrefix \o password

(***************************************************************************)
(* The store after the module is loaded.                                   *)
(***************************************************************************)
Init ==
    /\ users = <<>>
    /\ posts = <<>>
    /\ call = [op |-> "load"]
    /\ ret = NULL

HasUser(userId) == \E i \in 1..Len(users) : users[i].id = userId

\* users.find(u => u.id === userId), for a userId that HasUser
FindUser(userId) == users[findIndex(users, LAMBDA u : u.id = userId)]

Throw(msg) ==
    /\ ret' = Error(msg)
    /\ UNCHANGED <<users, posts>>

getUserById(userId) ==
    /\ call' = [op |-> "getUserById", userId |-> userId]
    /\ UNCHANGED <<users, posts>>
    /\ IF ~HasUser(userId)
       THEN ret' = NULL
       ELSE LET user == FindUser(userId)
            IN ret' = Value([id |-> user.id, name |-> user.name,
                             email |-> user.email, createdAt |-> user.createdAt])

NameTooShort(name) == ~Truthy(name) \/ Len(name) < 2

EmailInvalid(email) == ~Truthy(email) \/ ~includes(email, <<"@">>)

MinPasswordLength == 8

\* mutant: a password of exactly the minimum length is rejected
PasswordTooShort_offByOne(password) ==
    ~Truthy(password) \/ Len(password) <= MinPasswordLength

PasswordTooShort(password) == ~Truthy(password) \/ Len(password) < MinPasswordLength

\* mutant: one more than the largest id in use
NextUserId_afterLargest ==
    IF users = <<>> THEN 1
    ELSE 1 + CHOOSE m \in {users[i].id : i \in 1..Len(users)} :
                \A i \in 1..Len(users) : users[i].id <= m

NextUserId == Len(users) + 1

\* now is the reading of the wall clock during the call
createUser(name, email, password, now) ==
    /\ call' = [op |-> "createUser", name |-> name, email |-> email,
                password |-> password]
    /\ IF NameTooShort(name)
       THEN Throw("Name must be at least 2 characters")
       ELSE IF EmailInvalid(email)
       THEN Throw("Valid email required")
       ELSE IF PasswordTooShort(password)
       THEN Throw("Password must be at least 8 characters")
       ELSE LET newUser == [id |-> NextUserId,
                            name |-> name,
                            email |-> email,
                            password |-> hashPassword(password),
                            createdAt |-> toISOString(now),
                            isActive |-> TRUE]
            IN /\ Len(users) < MaxUsers
               /\ users' = Append(users, newUser)
               /\ posts' = posts
               /\ ret' = Value([id |-> newUser.id, name |-> newUser.name,
                                email |-> newUser.email,
                                createdAt |-> newUser.createdAt])

\* mutant: name and email are assigned without the test for presence
ApplyUpdates_unguarded(user, updates) ==
    [user EXCEPT
        !.name = IF "name" \in DOMAIN updates THEN updates.name ELSE UNDEFINED,
        !.email = IF "email" \in DOMAIN updates THEN updates.email ELSE UNDEFINED,
        !.isActive = IF "isActive" \in DOMAIN updates
                     THEN updates.isActive ELSE @]

\* the three conditional assignments of updateUser
ApplyUpdates(user, updates) ==
    [user EXCEPT
        !.name = IF "name" \in DOMAIN updates /\ Truthy(updates.name)
                 THEN updates.name ELSE @,
        !.email = IF "email" \in DOMAIN updates /\ Truthy(updates.email)
                  THEN updates.email ELSE @,
        !.isActive = IF "isActive" \in DOMAIN updates
                     THEN updates.isActive ELSE @]

updateUser(userId, updates) ==
    /\ call' = [op |-> "updateUser", userId |-> userId, updates |-> updates]
    /\ posts' = posts
    /\ IF ~HasUser(userId)
       THEN /\ ret' = NULL
            /\ users' = users
       ELSE LET index == findIndex(users, LAMBDA u : u.id = userId)
                user == ApplyUpdates(users[index], updates)
            IN /\ users' = [users EXCEPT ![index] = user]
               /\ ret' = Value([id |-> user.id, name |-> user.name,
                                email |-> user.email,
                                isActive |-> user.isActive])

\* the forEach of deleteUser: each post of userPosts is looked up with
\* indexOf and spliced out.  indexOf compares object identity; two stored
\* posts that are equal field by field are both in userPosts or both not,
\* so removing the first equal one leaves the same list.
\* mutant: only the first post of userPosts is spliced out
spliceEach_firstOnly(arr, userPosts) ==
    IF userPosts = <<>> THEN arr
    ELSE splice1(arr, findIndex(arr, LAMBDA p : p = Head(userPosts)))

\* mutant: the loop walks the array it splices and skips every second post
RECURSIVE spliceEach_skipping(_, _)
spliceEach_skipping(arr, userPosts) ==
    IF userPosts = <<>> THEN arr
    ELSE LET postIndex == findIndex(arr, LAMBDA p : p = Head(userPosts))
         IN spliceEach_skipping(splice1(arr, postIndex),
                                IF Len(userPosts) > 1
                                THEN Tail(Tail(userPosts)) ELSE <<>>)

RECURSIVE spliceEach(_, _)
spliceEach(arr, userPosts) ==
    IF userPosts = <<>> THEN arr
    ELSE LET postIndex == findIndex(arr, LAMBDA p : p = Head(userPosts))
         IN spliceEach(splice1(arr, postIndex), Tail(userPosts))

deleteUser(userId) ==
    /\ call' = [op |-> "deleteUser", userId |-> userId]
    /\ LET index == findIndex(users, LAMBDA u : u.id = userId)
       IN IF index = 0
          THEN /\ ret' = Value(FALSE)
               /\ UNCHANGED <<users, posts>>
          ELSE LET userPosts == filter(posts, LAMBDA p : p.userId = userId)
               IN /\ posts' = spliceEach(posts, userPosts)
                  /\ users' = splice1(users, index)
                  /\ ret' = Value(TRUE)

HasPost(postId) == \E i \in 1..Len(posts) : posts[i].id = postId

\* the value of an omitted tags argument
NoTags == <<UNDEFINED>>

MaxTitleLength == 200

MaxContentLength == 5000

\* mutant: a title of exactly MaxTitleLength characters is refused
TitleInvalid_atLimit(title) == ~Truthy(title) \/ Len(title) >= MaxTitleLength

TitleInvalid(title) == ~Truthy(title) \/ Len(title) > MaxTitleLength

ContentInvalid(content) == ~Truthy(content) \/ Len(content) > MaxContentLength

\* mutant: the id is the index of the new post, counted from 0
NextPostId_fromZero == Len(posts)

NextPostId == Len(posts) + 1

\* mutant: the title and the content are validated before the user is looked up
createPostError_userLast(userId, title, content) ==
    IF TitleInvalid(title)
    THEN "Title required and must be under 200 characters"
    ELSE IF ContentInvalid(content)
    THEN "Content required and must be under 5000 characters"
    ELSE IF ~HasUser(userId)
    THEN "User not found"
    ELSE ""

\* the message of the first check of createPost that throws, "" when none does
createPostError(userId, title, content) ==
    IF ~HasUser(userId)
    THEN "User not found"
    ELSE IF TitleInvalid(title)
    THEN "Title required and must be under 200 characters"
    ELSE IF ContentInvalid(content)
    THEN "Content required and must be under 5000 characters"
    ELSE ""

\* now is the reading of the wall clock during the call
createPost(userId, title, content, tags, now) ==
    /\ call' = [op |-> "createPost", userId |-> userId, title |-> title,
                content |-> content, tags |-> tags]
    /\ IF createPostError(userId, title, content) # ""
       THEN Throw(createPostError(userId, title, content))
       ELSE LET newPost == [id |-> NextPostId,
                            userId |-> userId,
                            title |-> title,
                            content |-> content,
                            tags |-> IF tags = NoTags THEN <<>> ELSE tags,
                            createdAt |-> toISOString(now),
                            likes |-> 0,
                            published |-> TRUE]
            IN /\ Len(posts) < MaxPosts
               /\ posts' = Append(posts, newPost)
               /\ users' = users
               /\ ret' = Value(newPost)

\* mutant: the posts are not filtered by owner
OwnedPosts_all(userId) == posts

\* posts.filter(p => p.userId === userId)
OwnedPosts(userId) == filter(posts, LAMBDA p : p.userId = userId)

\* mutant: the limit is applied before the filters on published and tag
UserPostsOf_limitFirst(userId, options) ==
    LET owned == OwnedPosts(userId)
        limited == IF "limit" \in DOMAIN options /\ options.limit > 0
                   THEN slice0(owned, options.limit)
                   ELSE owned
        byPublished == IF "published" \in DOMAIN options
                       THEN filter(limited, LAMBDA p : p.published = options.published)
                       ELSE limited
    IN IF "tag" \in DOMAIN options /\ Truthy(options.tag)
       THEN filter(byPublished, LAMBDA p : arrayIncludes(p.tags, options.tag))
       ELSE byPublished

\* the filters of getUserPosts, in the order the code applies them
UserPostsOf(userId, options) ==
    LET owned == OwnedPosts(userId)
        byPublished == IF "published" \in DOMAIN options
                       THEN filter(owned, LAMBDA p : p.published = options.published)
                       ELSE owned
        byTag == IF "tag" \in DOMAIN options /\ Truthy(options.tag)
                 THEN filter(byPublished, LAMBDA p : arrayIncludes(p.tags, options.tag))
                 ELSE byPublished
    IN IF "limit" \in DOMAIN options /\ options.limit # 0 /\ options.limit > 0
       THEN slice0(byTag, options.limit)
       ELSE byTag

getUserPosts(userId, options) ==
    /\ call' = [op |-> "getUserPosts", userId |-> userId, options |-> options]
    /\ UNCHANGED <<users, posts>>
    /\ ret' = Value(UserPostsOf(userId, options))

MinKeywordLength == 3

DefaultMaxResults == 10

KeywordInvalid(keyword) == ~Truthy(keyword) \/ Len(keyword) < MinKeywordLength

\* the predicate of the filter in searchPosts
Matches(p, lowerKeyword) ==
    \/ includes(toLowerCase(p.title), lowerKeyword)
    \/ includes(toLowerCase(p.content), lowerKeyword)
    \/ \E i \in 1..Len(p.tags) : includes(toLowerCase(p.tags[i]), lowerKeyword)

\* mutant: the slice keeps one result too many
SearchResults_oneMore(keyword, maxResults) ==
    LET lowerKeyword == toLowerCase(keyword)
        results == filter(posts, LAMBDA p : Matches(p, lowerKeyword))
    IN slice0(results, maxResults + 1)

SearchResults(keyword, maxResults) ==
    LET lowerKeyword == toLowerCase(keyword)
        results == filter(posts, LAMBDA p : Matches(p, lowerKeyword))
    IN slice0(results, maxResults)

\* maxResults is <<>> when the argument is omitted, <<n>> for the number n
searchPosts(keyword, maxResults) ==
    /\ call' = [op |-> "searchPosts", keyword |-> keyword,
                maxResults |-> maxResults]
    /\ IF KeywordInvalid(keyword)
       THEN Throw("Search keyword must be at least 3 characters")
       ELSE /\ UNCHANGED <<users, posts>>
            /\ ret' = Value(SearchResults(keyword,
                                IF maxResults = <<>> THEN DefaultMaxResults
                                ELSE maxResults[1]))

\* mutant: a like counts twice
incrementLikes_double(post) == [post EXCEPT !.likes = @ + 2]

\* mutant: a like takes one away
incrementLikes_decrement(post) == [post EXCEPT !.likes = @ - 1]

\* post.likes += 1
incrementLikes(post) == [post EXCEPT !.likes = @ + 1]

likePost(postId) ==
    /\ call' = [op |-> "likePost", postId |-> postId]
    /\ users' = users
    /\ IF ~HasPost(postId)
       THEN /\ ret' = NULL
            /\ posts' = posts
       ELSE LET index == findIndex(posts, LAMBDA p : p.id = postId)
                post == incrementLikes(posts[index])
            IN /\ posts[index].likes < MaxLikes
               /\ posts' = [posts EXCEPT ![index] = post]
               /\ ret' = Value([id |-> post.id, title |-> post.title,
                                likes |-> post.likes])

RECURSIVE sumLikes(_)
sumLikes(arr) == IF arr = <<>> THEN 0 ELSE Head(arr).likes + sumLikes(Tail(arr))

\* post.likes > (max?.likes || 0) ? post : max
MorePopular(max, post) ==
    IF post.likes > (IF max = NULL THEN 0 ELSE max.likes) THEN post ELSE max

\* userPosts.reduce(..., null)
RECURSIVE reduceMostPopular(_, _)
reduceMostPopular(max, arr) ==
    IF arr = <<>> THEN max
    ELSE reduceMostPopular(MorePopular(max, Head(arr)), Tail(arr))

\* (totalLikes / count).toFixed(2): the decimal string of the quotient
\* rounded to hundredths.  A quotient of two integers with count < 8 is
\* never half way between two hundredths, so the rounding of the binary
\* double and the rounding of the exact quotient agree.
toFixed2(totalLikes, count) ==
    LET h == (200 * totalLikes + count) \div (2 * count)
    IN NatToString(h \div 100) \o <<".">>
         \o <<Digits[((h % 100) \div 10) + 1], Digits[(h % 10) + 1]>>

getUserStats(userId) ==
    /\ call' = [op |-> "getUserStats", userId |-> userId]
    /\ IF ~HasUser(userId)
       THEN Throw("User not found")
       ELSE LET user == FindUser(userId)
                userPosts == OwnedPosts(userId)
                totalLikes == sumLikes(userPosts)
                mostPopular == reduceMostPopular(NULL, userPosts)
            IN /\ UNCHANGED <<users, posts>>
               /\ ret' = Value(
                    [userId |-> userId,
                     userName |-> user.name,
                     totalPosts |-> Len(userPosts),
                     totalLikes |-> totalLikes,
                     averageLikesPerPost |->
                        IF Len(userPosts) > 0
                        THEN [type |-> "string",
                              string |-> toFixed2(totalLikes, Len(userPosts))]
                        ELSE [type |-> "number", number |-> 0],
                     mostPopularPost |->
                        IF mostPopular # NULL
                        THEN [id |-> mostPopular.id,
                              title |-> mostPopular.title,
                              likes |-> mostPopular.likes]
                        ELSE NULL])

(***************************************************************************)
(* The callers' arguments.                                                 *)
(***************************************************************************)
UserIds == 1..(MaxUsers + 1)

PostIds == 1..(MaxPosts + 1)

Al == <<"A","l">>

AlEmail == <<"a","@","b">>

Password8 == <<"p","a","s","s","w","o","r","d">>

Hi == <<"H","i">>

World == <<"W","o","r","l","d">>

News == <<"N","e","w","s">>

Names == {UNDEFINED, <<>>, <<"A">>, Al}

Emails == {UNDEFINED, <<"a","b">>, AlEmail}

Passwords == {UNDEFINED, <<"p","a","s","s","w","o","r">>, Password8}

Updates == {<<>>,
            [name |-> <<"X">>],
            [email |-> <<"x">>],
            [name |-> <<>>, email |-> <<>>, isActive |-> FALSE]}

LongTitle == [i \in 1..(MaxTitleLength + 1) |-> "x"]

\* the longest title and content that pass, and the shortest content that
\* does not
Title200 == [i \in 1..MaxTitleLength |-> "x"]

Content5000 == [i \in 1..MaxContentLength |-> "x"]

LongContent == [i \in 1..(MaxContentLength + 1) |-> "x"]

Titles == {UNDEFINED, <<>>, Hi, LongTitle}

Contents == {UNDEFINED, <<>>, World}

TagLists == {NoTags, <<News>>}

\* options of getUserPosts: a property that is absent is not in the record
Options ==
    {<<>>}
        \cup [published : BOOLEAN]
        \cup [tag : {<<>>, News, Hi}]
        \cup [limit : {-1, 0, 1, 2}]
        \cup [tag : {News}, limit : {1}]
        \cup [published : BOOLEAN, tag : {<<>>, News}, limit : {-1, 0, 1}]

Keywords == {UNDEFINED, <<"w","o">>, <<"W","O","R">>, <<"n","e","w">>}

MaxResultsArgs == {<<>>} \cup {<<n>> : n \in (-2)..(MaxPosts + 1)}

(***************************************************************************)
(* Spec: the whole library, called in any order, each function with a     *)
(* valid call and its simplest invalid call.                               *)
(***************************************************************************)
CallCreateUser ==
    \E name \in {<<"A">>, Al} : createUser(name, AlEmail, Password8, 1)

CallUpdateUser ==
    \E userId \in UserIds : updateUser(userId, [name |-> <<"X">>])

CallDeleteUser == \E userId \in UserIds : deleteUser(userId)

CallGetUserById == \E userId \in UserIds : getUserById(userId)

CallCreatePost ==
    \E userId \in UserIds, title \in {<<>>, Hi}, tags \in TagLists :
        createPost(userId, title, World, tags, 1)

CallLikePost == \E postId \in PostIds : likePost(postId)

CallGetUserPosts == \E userId \in UserIds : getUserPosts(userId, <<>>)

CallSearchPosts ==
    \E keyword \in {<<"w","o">>, <<"W","O","R">>} : searchPosts(keyword, <<>>)

CallGetUserStats == \E userId \in UserIds : getUserStats(userId)

Next ==
    \/ CallCreateUser
    \/ CallUpdateUser
    \/ CallDeleteUser
    \/ CallGetUserById
    \/ CallCreatePost
    \/ CallLikePost
    \/ CallGetUserPosts
    \/ CallSearchPosts
    \/ CallGetUserStats

Spec == Init /\ [][Next]_vars

(***************************************************************************)
(* SpecUsers: the user functions, with every combination of missing, too   *)
(* short and valid arguments and two readings of the clock.                *)
(***************************************************************************)
UsersCreateUser ==
    \E name \in Names, email \in Emails, password \in Passwords, now \in {1, 2} :
        createUser(name, email, password, now)

UsersUpdateUser ==
    \E userId \in UserIds, updates \in Updates : updateUser(userId, updates)

UsersDeleteUser == \E userId \in UserIds : deleteUser(userId)

UsersGetUserById == \E userId \in UserIds : getUserById(userId)

NextUsers ==
    \/ UsersCreateUser
    \/ UsersUpdateUser
    \/ UsersDeleteUser
    \/ UsersGetUserById

SpecUsers == Init /\ [][NextUsers]_vars

(***************************************************************************)
(* SpecCreatePost: users that only come and go, and createPost with every  *)
(* combination of missing, empty, valid and too long title and content,    *)
(* without tags and with an empty list of tags.                            *)
(***************************************************************************)
PostCreateUser == createUser(Al, AlEmail, Password8, 1)

PostDeleteUser == \E userId \in UserIds : deleteUser(userId)

PostCreatePost ==
    \E userId \in UserIds, title \in Titles, content \in Contents,
       tags \in {NoTags, <<>>} :
        createPost(userId, title, content, tags, 1)

NextCreatePost ==
    \/ PostCreateUser
    \/ PostDeleteUser
    \/ PostCreatePost

SpecCreatePost == Init /\ [][NextCreatePost]_vars

(***************************************************************************)
(* SpecSearch: posts whose title, content and tags differ, searched with   *)
(* every keyword and every maxResults.                                     *)
(***************************************************************************)
SearchCreateUser == createUser(Al, AlEmail, Password8, 1)

SearchCreatePost ==
    \E title \in {Hi, News}, content \in {Hi, World}, tags \in TagLists :
        createPost(1, title, content, tags, 1)

SearchSearchPosts ==
    \E keyword \in Keywords, maxResults \in MaxResultsArgs :
        searchPosts(keyword, maxResults)

NextSearch ==
    \/ SearchCreateUser
    \/ SearchCreatePost
    \/ SearchSearchPosts

SpecSearch == Init /\ [][NextSearch]_vars

(***************************************************************************)
(* SpecStats: users with posts that collect likes, and getUserStats.       *)
(***************************************************************************)
StatsCreateUser == createUser(Al, AlEmail, Password8, 1)

StatsCreatePost ==
    \E userId \in UserIds, title \in {Hi, News} :
        createPost(userId, title, World, NoTags, 1)

StatsLikePost == \E postId \in PostIds : likePost(postId)

StatsGetUserStats == \E userId \in UserIds : getUserStats(userId)

NextStats ==
    \/ StatsCreateUser
    \/ StatsCreatePost
    \/ StatsLikePost
    \/ StatsGetUserStats

SpecStats == Init /\ [][NextStats]_vars

(***************************************************************************)
(* SpecCreateUser: createUser with every combination of missing, too short *)
(* and valid arguments and two readings of the clock, and deleteUser.      *)
(***************************************************************************)
NewCreateUser ==
    \E name \in Names, email \in Emails, password \in Passwords, now \in {1, 2} :
        createUser(name, email, password, now)

NewDeleteUser == \E userId \in UserIds : deleteUser(userId)

NextCreateUser ==
    \/ NewCreateUser
    \/ NewDeleteUser

SpecCreateUser == Init /\ [][NextCreateUser]_vars

(***************************************************************************)
(* SpecIds: users and posts that come and go, and getUserPosts.            *)
(***************************************************************************)
IdsCreateUser == createUser(Al, AlEmail, Password8, 1)

IdsDeleteUser == \E userId \in UserIds : deleteUser(userId)

IdsCreatePost ==
    \E userId \in UserIds, title \in {<<>>, Hi} :
        createPost(userId, title, World, NoTags, 1)

IdsGetUserPosts == \E userId \in UserIds : getUserPosts(userId, <<>>)

NextIds ==
    \/ IdsCreateUser
    \/ IdsDeleteUser
    \/ IdsCreatePost
    \/ IdsGetUserPosts

SpecIds == Init /\ [][NextIds]_vars

(***************************************************************************)
(* SpecExample: createUser, createPost and likePost from the empty store.  *)
(***************************************************************************)
ExampleCreateUser ==
    \E name \in {<<"A">>, Al} : createUser(name, AlEmail, Password8, 1)

ExampleCreatePost ==
    \E userId \in UserIds, title \in {<<>>, Hi}, content \in {<<>>, World} :
        createPost(userId, title, content, NoTags, 1)

ExampleLikePost == \E postId \in PostIds : likePost(postId)

NextExample ==
    \/ ExampleCreateUser
    \/ ExampleCreatePost
    \/ ExampleLikePost

SpecExample == Init /\ [][NextExample]_vars

(***************************************************************************)
(* SpecLikes: posts that are liked while users and posts come and go.      *)
(***************************************************************************)
LikesCreateUser == createUser(Al, AlEmail, Password8, 1)

LikesDeleteUser == \E userId \in UserIds : deleteUser(userId)

LikesCreatePost ==
    \E userId \in UserIds, title \in {<<>>, Hi} :
        createPost(userId, title, World, NoTags, 1)

LikesLikePost == \E postId \in PostIds : likePost(postId)

NextLikes ==
    \/ LikesCreateUser
    \/ LikesDeleteUser
    \/ LikesCreatePost
    \/ LikesLikePost

SpecLikes == Init /\ [][NextLikes]_vars

(***************************************************************************)
(* SpecUpdate: updateUser on users that come and go.                       *)
(***************************************************************************)
UpdateCreateUser == createUser(Al, AlEmail, Password8, 1)

UpdateDeleteUser == \E userId \in UserIds : deleteUser(userId)

UpdateUpdateUser ==
    \E userId \in UserIds, updates \in Updates : updateUser(userId, updates)

NextUpdate ==
    \/ UpdateCreateUser
    \/ UpdateDeleteUser
    \/ UpdateUpdateUser

SpecUpdate == Init /\ [][NextUpdate]_vars

(***************************************************************************)
(* SpecPostLimits: createPost with titles and contents that are missing,   *)
(* empty, short, exactly at the limit and one character over it.           *)
(***************************************************************************)
LimitsCreateUser == createUser(Al, AlEmail, Password8, 1)

LimitsCreatePost ==
    \E title \in {UNDEFINED, <<>>, Hi, Title200, LongTitle},
       content \in {UNDEFINED, <<>>, Content5000, LongContent} :
        createPost(1, title, content, NoTags, 1)

NextPostLimits ==
    \/ LimitsCreateUser
    \/ LimitsCreatePost

SpecPostLimits == Init /\ [][NextPostLimits]_vars

(***************************************************************************)
(* SpecQuery: posts of several users, with and without a tag, read by      *)
(* getUserPosts with every combination of options.                         *)
(***************************************************************************)
QueryCreateUser == createUser(Al, AlEmail, Password8, 1)

QueryCreatePost ==
    \E userId \in UserIds, tags \in TagLists :
        createPost(userId, Hi, World, tags, 1)

QueryGetUserPosts ==
    \E userId \in UserIds, options \in Options : getUserPosts(userId, options)

NextQuery ==
    \/ QueryCreateUser
    \/ QueryCreatePost
    \/ QueryGetUserPosts

SpecQuery == Init /\ [][NextQuery]_vars

(***************************************************************************)
(* Properties.  call and ret describe the last call and what it returned;  *)
(* users and posts are the store right after it.                           *)
(***************************************************************************)
Succeeded(c, r, op) == c.op = op /\ r.kind = "value"

Deleted(c, r) == c.op = "deleteUser" /\ r = Value(TRUE)

\* C1: when deleteUser(id) returns true no stored post has userId = id
\* right afterwards, and a getUserPosts(id) with no options that follows
\* returns the empty list.
C1_CascadeDelete ==
    [][/\ Deleted(call', ret') =>
            \A i \in 1..Len(posts') : posts'[i].userId # call'.userId
       /\ ( /\ Deleted(call, ret)
            /\ call'.op = "getUserPosts"
            /\ call'.userId = call.userId
            /\ DOMAIN call'.options = {} ) => ret' = Value(<<>>)]_vars

\* deleteUser returned true and the one post left is the second that was
\* created: the first one went with its owner
C1_Witness ==
    /\ Deleted(call, ret)
    /\ Len(posts) = 1
    /\ posts[1].id = 2

\* C2: every stored post's userId is the id of at least one stored user.
C2_NoDanglingOwner ==
    \A i \in 1..Len(posts) : \E j \in 1..Len(users) : users[j].id = posts[i].userId

\* a user was deleted while other users and posts stay stored
C2_Witness ==
    /\ Deleted(call, ret)
    /\ users # <<>>
    /\ posts # <<>>

\* C3: createUser gives the new user the id (number of stored users before
\* the call) + 1 and createPost gives the new post the id (number of stored
\* posts before the call) + 1.
C3_IdIsLengthPlusOne ==
    [][/\ Succeeded(call', ret', "createUser") =>
            /\ ret'.value.id = Len(users) + 1
            /\ users'[Len(users')].id = Len(users) + 1
       /\ Succeeded(call', ret', "createPost") =>
            /\ ret'.value.id = Len(posts) + 1
            /\ posts'[Len(posts')].id = Len(posts) + 1]_vars

\* the id just given to a new user is the id of a user stored before it
C3_Witness ==
    /\ Succeeded(call, ret, "createUser")
    /\ \E i \in 1..(Len(users) - 1) : users[i].id = ret.value.id

StoreUnchanged == users' = users /\ posts' = posts

\* the character "@" occurs in s
HasAt(s) == \E i \in 1..Len(s) : s[i] = "@"

\* C4: createUser fails exactly when the name is missing or shorter than 2
\* characters, or the email is missing or has no "@", or the password is
\* missing or shorter than 8 characters; a failure leaves users and posts
\* unchanged; otherwise exactly one user is appended and the returned object
\* has id, name, email and createdAt and no password.
C4_CreateUserValidation ==
    [][call'.op = "createUser" =>
        LET c == call'
            rejected == \/ c.name = UNDEFINED \/ Len(c.name) < 2
                        \/ c.email = UNDEFINED \/ ~HasAt(c.email)
                        \/ c.password = UNDEFINED \/ Len(c.password) < 8
        IN /\ (ret'.kind = "throw") <=> rejected
           /\ ret'.kind \in {"throw", "value"}
           /\ ret'.kind = "throw" => StoreUnchanged
           /\ ret'.kind = "value" =>
                /\ posts' = posts
                /\ Len(users') = Len(users) + 1
                /\ SubSeq(users', 1, Len(users)) = users
                /\ DOMAIN ret'.value = {"id", "name", "email", "createdAt"}
                /\ ret'.value.id = users'[Len(users')].id
                /\ ret'.value.name = c.name
                /\ ret'.value.email = c.email]_vars

\* a createUser with a password of exactly 8 characters was accepted
C4_Witness ==
    /\ Succeeded(call, ret, "createUser")
    /\ Len(call.password) = 8
    /\ Len(call.name) = 2

\* C5: createPost throws 'User not found' when no stored user has the
\* userId, whatever the title, content and tags, and leaves users and posts
\* unchanged.
C5_CreatePostUnknownUser ==
    [][( /\ call'.op = "createPost"
         /\ ~\E i \in 1..Len(users) : users[i].id = call'.userId ) =>
            /\ ret' = Error("User not found")
            /\ StoreUnchanged]_vars

\* createPost with an empty title was refused for the missing user while
\* another user is stored
C5_Witness ==
    /\ call.op = "createPost"
    /\ ret = Error("User not found")
    /\ call.title = <<>>
    /\ users # <<>>

\* C6: every stored user has a name of at least 2 characters and an email
\* containing "@".
C6_UserDataModel ==
    \A i \in 1..Len(users) : Len(users[i].name) >= 2 /\ HasAt(users[i].email)

\* the indexes of the stored posts of the user
OwnedIndexes(userId) == {i \in 1..Len(posts) : posts[i].userId = userId}

\* the first stored post of the user that no other post of the user beats
MostLikedIndex(userId) ==
    CHOOSE i \in OwnedIndexes(userId) :
        \A j \in OwnedIndexes(userId) :
            \/ posts[j].likes < posts[i].likes
            \/ posts[j].likes = posts[i].likes /\ i <= j

\* C7: for a user that owns at least one post getUserStats returns as
\* mostPopularPost the most-liked post of the user, the first one in
\* insertion order among equals, whatever the like counts.
C7_MostPopularPost ==
    ( /\ Succeeded(call, ret, "getUserStats")
      /\ OwnedIndexes(call.userId) # {} ) =>
        LET best == posts[MostLikedIndex(call.userId)]
        IN ret.value.mostPopularPost =
              [id |-> best.id, title |-> best.title, likes |-> best.likes]

\* C8: getUserStats of a stored user without posts returns totalPosts = 0,
\* totalLikes = 0, averageLikesPerPost = 0 and mostPopularPost = null; of a
\* userId without stored user it throws 'User not found'; the store is
\* unchanged in both cases.
C8_StatsWithoutPosts ==
    [][call'.op = "getUserStats" =>
        LET known == \E i \in 1..Len(users) : users[i].id = call'.userId
        IN /\ ~known => ret' = Error("User not found") /\ StoreUnchanged
           /\ (known /\ OwnedIndexes(call'.userId) = {}) =>
                /\ StoreUnchanged
                /\ ret'.kind = "value"
                /\ ret'.value.totalPosts = 0
                /\ ret'.value.totalLikes = 0
                /\ ret'.value.averageLikesPerPost = [type |-> "number", number |-> 0]
                /\ ret'.value.mostPopularPost = NULL]_vars

\* the statistics of a user without posts while another user has posts
C8_Witness ==
    /\ Succeeded(call, ret, "getUserStats")
    /\ ret.value.totalPosts = 0
    /\ posts # <<>>

\* c and d are the same character up to the case of a letter
SameLetter(c, d) ==
    c = d \/ \E k \in 1..26 : {c, d} = {UpperCase[k], LowerCase[k]}

ContainsIgnoringCase(s, keyword) ==
    \E i \in 0..(Len(s) - Len(keyword)) :
        \A j \in 1..Len(keyword) : SameLetter(s[i + j], keyword[j])

\* the stored posts whose title, content or some tag contains the keyword
MatchingPosts(keyword) ==
    SelectSeq(posts, LAMBDA p :
        \/ ContainsIgnoringCase(p.title, keyword)
        \/ ContainsIgnoringCase(p.content, keyword)
        \/ \E t \in 1..Len(p.tags) : ContainsIgnoringCase(p.tags[t], keyword))

IsPrefix(a, b) == Len(a) <= Len(b) /\ a = SubSeq(b, 1, Len(a))

KeywordRefused(c) == c.keyword = UNDEFINED \/ Len(c.keyword) < 3

\* the maxResults of a searchPosts call, 10 when the argument is omitted
MaxResultsOf(c) == IF c.maxResults = <<>> THEN 10 ELSE c.maxResults[1]

AfterFirstUser ==
    /\ Succeeded(call, ret, "createUser")
    /\ Len(users) = 1
    /\ posts = <<>>

\* the store right after a createPost(1, ...) that stored the only post of
\* the only user
AfterFirstPost ==
    /\ Succeeded(call, ret, "createPost")
    /\ call.userId = 1
    /\ Len(users) = 1
    /\ users[1].id = 1
    /\ Len(posts) = 1

\* C10: on the empty store a successful createUser returns id 1; a following
\* createPost(1, ...) with valid title and content returns a post with id 1
\* and likes 0; a following likePost(1) returns that post's id and title
\* with likes = 1.
C10_Example ==
    [][/\ ( /\ users = <<>>
            /\ posts = <<>>
            /\ Succeeded(call', ret', "createUser") ) => ret'.value.id = 1
       /\ ( /\ AfterFirstUser
            /\ call'.op = "createPost"
            /\ call'.userId = 1
            /\ call'.title \notin {UNDEFINED, <<>>}
            /\ Len(call'.title) <= 200
            /\ call'.content \notin {UNDEFINED, <<>>}
            /\ Len(call'.content) <= 5000 ) =>
                /\ ret'.kind = "value"
                /\ ret'.value.id = 1
                /\ ret'.value.likes = 0
       /\ ( /\ AfterFirstPost
            /\ call'.op = "likePost"
            /\ call'.postId = 1 ) =>
                ret' = Value([id |-> 1, title |-> call.title, likes |-> 1])]_vars

\* likePost(1) has answered with one like for the only post of the only user
C10_Witness ==
    /\ call.op = "likePost"
    /\ call.postId = 1
    /\ ret = Value([id |-> 1, title |-> Hi, likes |-> 1])
    /\ Len(users) = 1
    /\ users[1].id = 1
    /\ Len(posts) = 1

\* C11: when createUser succeeds and returns id i, a getUserById(i) that
\* follows returns a view with the name and the email just passed to
\* createUser.
C11_CreateLookupRoundTrip ==
    [][( /\ Succeeded(call, ret, "createUser")
         /\ call'.op = "getUserById"
         /\ call'.userId = ret.value.id ) =>
            /\ ret'.kind = "value"
            /\ ret'.value.name = call.name
            /\ ret'.value.email = call.email]_vars

\* C12: when deleteUser(id) returns true, a getUserById(id) that follows
\* returns null and a createPost(id, ...) that follows throws 'User not
\* found'.
C12_DeleteThenLookup ==
    [][/\ ( /\ Deleted(call, ret)
            /\ call'.op = "getUserById"
            /\ call'.userId = call.userId ) => ret' = NULL
       /\ ( /\ Deleted(call, ret)
            /\ call'.op = "createPost"
            /\ call'.userId = call.userId ) => ret' = Error("User not found")]_vars

\* C13: deleteUser(id) returns false and leaves users and posts unchanged
\* when no stored user has the id; when it returns true it removes exactly
\* one user, with that id, removes exactly the posts whose userId is the id,
\* and leaves all other users and posts as they are and in the same order.
C13_DeleteUserFrame ==
    [][call'.op = "deleteUser" =>
        LET id == call'.userId
        IN /\ (~\E i \in 1..Len(users) : users[i].id = id) =>
                ret' = Value(FALSE) /\ StoreUnchanged
           /\ ret' = Value(TRUE) =>
                /\ \E k \in 1..Len(users) :
                      /\ users[k].id = id
                      /\ users' = SubSeq(users, 1, k - 1)
                                    \o SubSeq(users, k + 1, Len(users))
                /\ posts' = SelectSeq(posts, LAMBDA p : p.userId # id)]_vars

\* deleteUser returned true and a second user with the same id stays stored
C13_Witness ==
    /\ Deleted(call, ret)
    /\ \E i \in 1..Len(users) : users[i].id = call.userId

\* C14: likePost(postId) returns null and leaves the store unchanged when no
\* stored post has the id; otherwise it adds exactly 1 to the likes of exactly
\* one stored post with that id, returns that post's id, title and new likes,
\* and leaves every other post, every other field of that post and all users
\* unchanged.
C14_LikePostFrame ==
    [][call'.op = "likePost" =>
        LET id == call'.postId
        IN IF ~\E i \in 1..Len(posts) : posts[i].id = id
           THEN ret' = NULL /\ StoreUnchanged
           ELSE /\ users' = users
                /\ \E k \in 1..Len(posts) :
                      /\ posts[k].id = id
                      /\ posts' = [posts EXCEPT ![k].likes = posts[k].likes + 1]
                      /\ ret' = Value([id |-> id, title |-> posts[k].title,
                                       likes |-> posts[k].likes + 1])]_vars

\* likePost has just liked one of two stored posts that share its id
C14_Witness ==
    /\ Succeeded(call, ret, "likePost")
    /\ \E i, j \in 1..Len(posts) :
          /\ i # j
          /\ posts[i].id = call.postId
          /\ posts[j].id = call.postId
          /\ posts[i].likes # posts[j].likes

\* C15: updateUser(id, updates) returns null and leaves the store unchanged
\* when no stored user has the id; otherwise it changes, of exactly one stored
\* user with that id, only those of name, email and isActive that are present
\* in updates, and leaves that user's id, password and createdAt, every other
\* user and all posts unchanged.
C15_UpdateUserFrame ==
    [][call'.op = "updateUser" =>
        LET id == call'.userId
            updates == call'.updates
        IN IF ~\E i \in 1..Len(users) : users[i].id = id
           THEN ret' = NULL /\ StoreUnchanged
           ELSE /\ posts' = posts
                /\ Len(users') = Len(users)
                /\ \E k \in 1..Len(users) :
                      /\ users[k].id = id
                      /\ \A i \in 1..Len(users) : i # k => users'[i] = users[i]
                      /\ users'[k].id = users[k].id
                      /\ users'[k].password = users[k].password
                      /\ users'[k].createdAt = users[k].createdAt
                      /\ "name" \notin DOMAIN updates =>
                            users'[k].name = users[k].name
                      /\ "email" \notin DOMAIN updates =>
                            users'[k].email = users[k].email
                      /\ "isActive" \notin DOMAIN updates =>
                            users'[k].isActive = users[k].isActive]_vars

\* updateUser has just changed one of two stored users that share its id
C15_Witness ==
    /\ Succeeded(call, ret, "updateUser")
    /\ \E i, j \in 1..Len(users) :
          /\ i # j
          /\ users[i].id = call.userId
          /\ users[j].id = call.userId
          /\ users[i] # users[j]

MissingOrEmpty(s) == s = UNDEFINED \/ s = <<>>

\* the title or the content of the call c is missing, empty or too long
PostRefused(c) ==
    \/ MissingOrEmpty(c.title)
    \/ Len(c.title) > 200
    \/ MissingOrEmpty(c.content)
    \/ Len(c.content) > 5000

PostsWellFormed ==
    \A i \in 1..Len(posts) :
        /\ ~MissingOrEmpty(posts[i].title)
        /\ Len(posts[i].title) <= 200
        /\ ~MissingOrEmpty(posts[i].content)
        /\ Len(posts[i].content) <= 5000

\* C16: createPost for an existing user fails exactly when the title is
\* missing, empty or longer than 200 characters, or the content is missing,
\* empty or longer than 5000 characters, and then leaves posts unchanged;
\* every stored post has a non-empty title of at most 200 characters and a
\* non-empty content of at most 5000 characters; every newly appended post
\* has likes = 0 and published = true.
C16_CreatePostLimits ==
    /\ []PostsWellFormed
    /\ [][( /\ call'.op = "createPost"
            /\ \E i \in 1..Len(users) : users[i].id = call'.userId ) =>
              IF PostRefused(call')
              THEN ret'.kind = "throw" /\ posts' = posts
              ELSE /\ ret'.kind = "value"
                   /\ Len(posts') = Len(posts) + 1
                   /\ SubSeq(posts', 1, Len(posts)) = posts
                   /\ posts'[Len(posts')].likes = 0
                   /\ posts'[Len(posts')].published = TRUE]_vars

\* createPost has just stored a title of exactly 200 characters with a
\* content of exactly 5000 characters
C16_Witness ==
    /\ Succeeded(call, ret, "createPost")
    /\ Len(call.title) = 200
    /\ Len(call.content) = 5000
    /\ posts[Len(posts)].title = call.title
    /\ posts[Len(posts)].content = call.content

LikesNatural == \A i \in 1..Len(posts) : posts[i].likes \in Nat

\* a is b with some elements taken out
RECURSIVE IsSubsequence(_, _)
IsSubsequence(a, b) ==
    IF a = <<>> THEN TRUE
    ELSE IF b = <<>> THEN FALSE
    ELSE IF Head(a) = Head(b) THEN IsSubsequence(Tail(a), Tail(b))
    ELSE IsSubsequence(a, Tail(b))

\* C17: the likes of every stored post is an integer >= 0; while a post stays
\* stored its likes never decreases; posts leave the store only through the
\* cascade of deleteUser.
C17_LikesNeverDecrease ==
    /\ []LikesNatural
    /\ [][IF call'.op = "deleteUser"
          THEN IsSubsequence(posts', posts)
          ELSE /\ Len(posts') >= Len(posts)
               /\ \A i \in 1..Len(posts) :
                     /\ posts'[i] = [posts[i] EXCEPT !.likes = posts'[i].likes]
                     /\ posts'[i].likes >= posts[i].likes]_vars

\* deleteUser has just removed a user and a liked post stays stored
C17_Witness ==
    /\ Deleted(call, ret)
    /\ \E i \in 1..Len(posts) : posts[i].likes > 0

\* the first n elements of s, all of s when it has fewer
FirstN(s, n) == SubSeq(s, 1, IF n < Len(s) THEN n ELSE Len(s))

\* what C18 says getUserPosts(userId, options) returns; a tag is given when
\* options has a non-empty tag
ExpectedUserPosts(userId, options) ==
    LET owned == SelectSeq(posts, LAMBDA p : p.userId = userId)
        published == IF "published" \in DOMAIN options
                     THEN SelectSeq(owned,
                              LAMBDA p : p.published = options.published)
                     ELSE owned
        tagged == IF "tag" \in DOMAIN options /\ options.tag # <<>>
                  THEN SelectSeq(published,
                           LAMBDA p : \E i \in 1..Len(p.tags) :
                                          p.tags[i] = options.tag)
                  ELSE published
    IN IF "limit" \in DOMAIN options /\ options.limit > 0
       THEN FirstN(tagged, options.limit)
       ELSE tagged

\* C18: getUserPosts(userId, options) returns, in insertion order, exactly
\* the stored posts with that userId, restricted to published =
\* options.published when that option is a boolean, then to the posts whose
\* tags contain options.tag when a tag is given, then cut to the first
\* options.limit posts when limit > 0; it never returns a post of another
\* userId and never changes the store.
C18_GetUserPosts ==
    [][call'.op = "getUserPosts" =>
        /\ StoreUnchanged
        /\ ret' = Value(ExpectedUserPosts(call'.userId, call'.options))
        /\ \A i \in 1..Len(ret'.value) :
              ret'.value[i].userId = call'.userId]_vars

\* getUserPosts with a tag and limit 1 has just returned the second stored
\* post alone, the first one being of the same user without the tag
C18_Witness ==
    /\ Succeeded(call, ret, "getUserPosts")
    /\ DOMAIN call.options = {"tag", "limit"}
    /\ call.options.limit = 1
    /\ Len(posts) >= 2
    /\ posts[1].userId = call.userId
    /\ ret.value = <<posts[2]>>

====
